---- MODULE Spec2Model ----
(***************************************************************************)
(* Ingest -> score -> fan-out pipeline of the DriveMind.ai / Auralis.ai    *)
(* backend, as the repository documents its code:                          *)
(*   - /api/driving_data: asyncio.wait_for(_acquire_and_calculate_score,   *)
(*     timeout=2.0) around "async with semaphore", the computation running *)
(*     in a worker thread (asyncio.to_thread);                             *)
(*   - broadcast_to_clients: two module-level connection pools, routed by  *)
(*     the message's mode, spawned with asyncio.create_task.               *)
(* Scores are in tenths (50 = 5.0), confidences in hundredths (50 = 0.5),  *)
(* time in whole seconds.                                                  *)
(***************************************************************************)
EXTENDS Integers, Sequences, FiniteSets, TLC

\* ---------------------------------------------------------------- bounds
\* Number of /api/driving_data requests the model issues.
MaxReq == 2
\* Number of WebSocket connections the model opens.
MaxConn == 2
\* Worker threads of the event loop's default executor (asyncio.to_thread).
MaxWorkers == 2
\* Size of request_semaphore (configurable, 10 in the deployment), scaled down.
MAX_CONCURRENT_REQUESTS == 1
\* Longest --duration of a simulator run with failing requests, in seconds.
MaxSeconds == 5
\* Number of leave calls the model makes for one connection handle.
MaxLeaves == 2

\* ------------------------------------------------------- program constants
\* asyncio.wait_for(..., timeout=2.0), in seconds.
Deadline == 2
\* ScoreResponse(score=5.0, ..., confidence=0.5) of the timeout path.
FallbackScore == 50
FallbackConfidence == 50
\* "return 5.0  # Safe fallback" of calculate_score's except clause.
SafeFallback == 50
\* Confidence of a response built from a returned score.
NormalConfidence == 95
\* HTTP status of a ScoreResponse.
HttpOk == 200

\* max_retries of send_telemetry.
max_retries == 3
\* requests.post(..., timeout=10), in tenths of a second.
RequestTimeout == 100
\* --interval, 1.0 s by default, in tenths of a second.
update_interval == 10
\* --duration of the parallel simulator test, 10 s, in tenths of a second.
ParallelDuration == 100

Req == 1..MaxReq
Conn == 1..MaxConn

None == "None"

\* simulation_mode values a producer may send: the two documented modes, a
\* new name, the empty string and a missing field.
Modes == {"personal", "fleet", "delivery", "", None}
\* session_id values: a uuid, the empty string, a missing field.
SessionIds == {"s1", "", None}

\* DrivingData: simulation_mode and session_id are Optional[str]; the numeric
\* telemetry fields are abstracted into the outcome of the computation.
DrivingData == [simulation_mode : Modes, session_id : SessionIds]

\* A record that names its channel and its session.
WellFormed(d) ==
    /\ d.simulation_mode \notin {"", None}
    /\ d.session_id \notin {"", None}

ValidRecords == {d \in DrivingData : WellFormed(d)}

\* The valid records and each way of leaving the channel or the session
\* empty or missing.
Submitted ==
    {d \in DrivingData :
        \/ d.session_id = "s1"
        \/ d.simulation_mode = "personal"}

NoData == [simulation_mode |-> "unset", session_id |-> "unset"]

\* What _calculate_ml_score / _rule_based_score may do with a record: return a
\* score of the 0-10 scale, or raise.
ScoreValues == {0, 100}
Returned(s) == [raised |-> FALSE, score |-> s]
Raised == [raised |-> TRUE, score |-> 0]
ComputerOutcomes == {Returned(s) : s \in ScoreValues} \cup {Raised}
NoOutcome == [raised |-> FALSE, score |-> -1]

NoResp == [status |-> 0, score |-> 0, confidence |-> 0]
ScoreResponse(s, c) == [status |-> HttpOk, score |-> s, confidence |-> c]

\* The two simulators, one per --mode.
Producers == {"personal", "fleet"}

\* send_telemetry returning None.
NoResult == -1
NoSummary == [count |-> -1, average |-> -1, best |-> -1, worst |-> -1]

VARIABLES
    pc,                    \* request -> "new" | "waiting" | "computing" | "done"
    data,                  \* request -> the DrivingData it carries
    resp,                  \* request -> the response returned (NoResp before)
    elapsed,               \* request -> seconds since wait_for was entered
    thr,                   \* request -> its to_thread work item
    outcome,               \* request -> what its finished work item produced
    sem,                   \* request_semaphore._value
    conn,                  \* connection -> "new" | "open" | "dead" | "closed"
    joined,                \* connection -> pool it was appended to
    personal_connections,  \* list of connections of /ws/personal and /ws
    fleet_connections,     \* list of connections of /ws/fleet
    bcState,               \* request -> state of its broadcast task
    bcIdx,                 \* request -> index of the list iterator
    bcCur,                 \* request -> connection whose send_text is awaited
    sent,                  \* connection -> request -> messages sent
    bcLive,                \* request -> connections live in the pool since
                           \*   its broadcast began (history, read by no action)
    ppc,                   \* producer -> "idle" | "loop" | "sent" | "returned"
                           \*   | "done" | "crashed"
    duration,              \* run_simulation's duration, in tenths of a second
    clock,                 \* producer -> tenths of a second since its run began
    attempt,               \* producer -> loop variable of send_telemetry
    result,                \* producer -> what send_telemetry returned
    session_scores,        \* producer -> self.session_scores
    summary,               \* producer -> the statistics printed at completion
    tried,                 \* producer -> outcomes of the attempts of the current
                           \*   submission (history, read by no action)
    slept,                 \* producer -> delays slept for the current
                           \*   submission (history, read by no action)
    received,              \* producer -> scores of the 200 responses it got
                           \*   (history, read by no action)
    issued,                \* producer -> submissions issued (history)
    leaves,                \* connection -> leave calls made for it (history)
    record,                \* request -> the telemetry record its post carries
                           \*   (history, read by no action but a retry)
    chartData,             \* TelemetryCharts' state: the points of the charts
    drivingData,           \* the dashboard's drivingData state (0 is null)
    stamp,                 \* number of the last telemetry point delivered
    mountStamp,            \* stamp when the dashboard was (re)mounted (history)
    page,                  \* the dashboard page this browser tab shows
    hookState,             \* "unmounted" | "mounted" | "removed"
    url,                   \* the url argument of useWebSocket (None: no hook)
    sockets,               \* the WebSockets created, in order of creation
    wsRef,                 \* wsRef.current: index in sockets, 0 is null
    timers,                \* the pending setTimeout callbacks
    reconnectTimeoutRef,   \* reconnectTimeoutRef.current: a timer id, 0 is null
    reconnectAttemptsRef,  \* reconnectAttemptsRef.current
    connectionStatus,      \* the connectionStatus state
    streak,                \* reconnects scheduled since the last open (history)
    urlChanges             \* changes of the url argument so far (history)

vars == <<pc, data, resp, elapsed, thr, outcome, sem, conn, joined,
          personal_connections, fleet_connections, bcState, bcIdx, bcCur, sent,
          bcLive, ppc, duration, clock, attempt, result, session_scores,
          summary, tried, slept, received, issued, leaves, record,
          chartData, drivingData, stamp, mountStamp, page, hookState, url,
          sockets, wsRef, timers, reconnectTimeoutRef, reconnectAttemptsRef,
          connectionStatus, streak, urlChanges>>

scorerVars == <<pc, data, resp, elapsed, thr, outcome, sem, record>>
registryVars == <<conn, joined, personal_connections, fleet_connections, leaves>>
taskVars == <<bcState, bcIdx, bcCur, sent, bcLive>>
producerVars == <<ppc, duration, clock, attempt, result, session_scores,
                  summary, tried, slept, received, issued>>

serverVars == <<scorerVars, registryVars, taskVars, producerVars>>
chartVars == <<chartData, drivingData, stamp, mountStamp>>
hookVars == <<page, hookState, url, sockets, wsRef, timers,
              reconnectTimeoutRef, reconnectAttemptsRef, connectionStatus,
              streak, urlChanges>>
frontendVars == <<chartVars, hookVars>>

\* The backend after start-up: no request, no connection, a full semaphore.
BackendInit ==
    /\ pc = [r \in Req |-> "new"]
    /\ data = [r \in Req |-> NoData]
    /\ resp = [r \in Req |-> NoResp]
    /\ elapsed = [r \in Req |-> 0]
    /\ thr = [r \in Req |-> "none"]
    /\ outcome = [r \in Req |-> NoOutcome]
    /\ sem = MAX_CONCURRENT_REQUESTS
    /\ conn = [c \in Conn |-> "new"]
    /\ joined = [c \in Conn |-> None]
    /\ personal_connections = <<>>
    /\ fleet_connections = <<>>
    /\ bcState = [r \in Req |-> "none"]
    /\ bcIdx = [r \in Req |-> 0]
    /\ bcCur = [r \in Req |-> 0]
    /\ sent = [c \in Conn |-> [r \in Req |-> 0]]
    /\ bcLive = [r \in Req |-> {}]
    /\ leaves = [c \in Conn |-> 0]
    /\ record = [r \in Req |-> 0]

\* The simulators after __init__: session_scores = [], no run started yet;
\* the --duration argument is one of D.
ProducerInit(D) ==
    /\ duration \in D
    /\ ppc = [p \in Producers |-> "idle"]
    /\ clock = [p \in Producers |-> 0]
    /\ attempt = [p \in Producers |-> 0]
    /\ result = [p \in Producers |-> NoResult]
    /\ session_scores = [p \in Producers |-> <<>>]
    /\ summary = [p \in Producers |-> NoSummary]
    /\ tried = [p \in Producers |-> <<>>]
    /\ slept = [p \in Producers |-> <<>>]
    /\ received = [p \in Producers |-> <<>>]
    /\ issued = [p \in Producers |-> 0]

\* The dashboard pages of the router, and the url each passes to
\* useWebSocket: DashboardPage the legacy endpoint; FleetDashboardPage calls no
\* useWebSocket (FleetDashboard polls the REST api).
Pages == {"personal", "fleet"}
PageUrl(pg) == IF pg = "personal" THEN "/ws" ELSE None

\* The dashboard before its first render, showing one of the pages P:
\* useState([]), useState(null), useState('disconnected'), useRef(null),
\* useRef(0).
FrontendInit(P) ==
    /\ chartData = <<>>
    /\ drivingData = 0
    /\ stamp = 0
    /\ mountStamp = 0
    /\ page \in P
    /\ hookState = "unmounted"
    /\ url = PageUrl(page)
    /\ sockets = <<>>
    /\ wsRef = 0
    /\ timers = {}
    /\ reconnectTimeoutRef = 0
    /\ reconnectAttemptsRef = 0
    /\ connectionStatus = "disconnected"
    /\ streak = 0
    /\ urlChanges = 0

Init == BackendInit /\ ProducerInit({ParallelDuration})
        /\ FrontendInit({"personal"})

\* ------------------------------------------------------------- the scorer
InFlight(r) == pc[r] \in {"waiting", "computing"}

\* A timer that only starts once the semaphore is held (wait_for placed inside
\* "async with semaphore").
TimerArmedAfterAcquire(r) == pc[r] = "computing"

\* asyncio.wait_for wraps the whole helper, so its timer runs from the call
\* on, while the call waits for the semaphore as well as while it computes.
TimerArmed(r) == InFlight(r)

\* The score a call gets back from ml_service.calculate_score: the value the
\* worker thread returned, or the safe fallback when it raised.
calculate_score(o) == IF o.raised THEN SafeFallback ELSE o.score

\* A timeout answered with a score on a 0-100 scale.
TimeoutResponsePercent == ScoreResponse(FallbackScore * 10, FallbackConfidence)

\* A timeout answered with a gateway-timeout error, as before the partial
\* response was introduced.
TimeoutHardFailure == [status |-> 504, score |-> 0, confidence |-> 0]

\* A timeout answered with the neutral score at the confidence of a computed
\* one.
TimeoutResponseConfident == ScoreResponse(FallbackScore, NormalConfidence)

\* The response of the except asyncio.TimeoutError clause.
TimeoutResponse == ScoreResponse(FallbackScore, FallbackConfidence)

\* The response built from a score that calculate_score returned.
ComputedResponse(o) == ScoreResponse(calculate_score(o), NormalConfidence)

\* Computations of the Score Computer entered and not yet exited.
Running == {r \in Req : thr[r] = "running"}

\* POST /api/driving_data, carrying telemetry record k, up to its first
\* suspension point. The schema makes
\* simulation_mode and session_id optional, so every record is taken. The
\* semaphore is taken at once when it is free; with other calls queued on it
\* the newcomer may also have to queue (the FIFO semaphore of later Pythons).
Post(r, d, k) ==
    /\ pc[r] = "new"
    /\ \A q \in 1..(r - 1) : pc[q] # "new"
    /\ data' = [data EXCEPT ![r] = d]
    /\ record' = [record EXCEPT ![r] = k]
    /\ elapsed' = [elapsed EXCEPT ![r] = 0]
    /\ \/ /\ sem > 0
          /\ sem' = sem - 1
          /\ pc' = [pc EXCEPT ![r] = "computing"]
          /\ thr' = [thr EXCEPT ![r] = "queued"]
       \/ /\ (sem = 0 \/ \E q \in Req : pc[q] = "waiting")
          /\ pc' = [pc EXCEPT ![r] = "waiting"]
          /\ UNCHANGED <<sem, thr>>
    /\ UNCHANGED <<resp, outcome, registryVars, taskVars>>
    /\ UNCHANGED producerVars
    /\ UNCHANGED frontendVars

\* A post of a new telemetry record.
Ingest(r, d) == Post(r, d, r)

\* send_telemetry's post of request q ended in requests.exceptions.Timeout
\* although the backend had received and answered it (the answer did not
\* reach the simulator in time); the next iteration of the retry loop posts
\* the same telemetry again.
Retry(r, q) ==
    /\ q < r
    /\ pc[q] = "done"
    /\ Post(r, data[q], record[q])

\* "async with semaphore" of a queued call, then asyncio.to_thread.
Acquire(r) ==
    /\ pc[r] = "waiting"
    /\ sem > 0
    /\ sem' = sem - 1
    /\ pc' = [pc EXCEPT ![r] = "computing"]
    /\ thr' = [thr EXCEPT ![r] = "queued"]
    /\ UNCHANGED <<data, resp, elapsed, outcome, registryVars, taskVars>>
    /\ UNCHANGED <<record, producerVars>>
    /\ UNCHANGED frontendVars

\* A worker of the executor picks the work item up: the computation is entered.
ThreadStart(r) ==
    /\ thr[r] = "queued"
    /\ Cardinality(Running) < MaxWorkers
    /\ thr' = [thr EXCEPT ![r] = "running"]
    /\ UNCHANGED <<pc, data, resp, elapsed, outcome, sem, registryVars, taskVars>>
    /\ UNCHANGED <<record, producerVars>>
    /\ UNCHANGED frontendVars

\* The computation is exited, with a score or an exception. Nobody awaits
\* the result of a work item whose call was cancelled.
ThreadExit(r, o) ==
    /\ thr[r] = "running"
    /\ thr' = [thr EXCEPT ![r] = "exited"]
    /\ outcome' = [outcome EXCEPT ![r] = IF pc[r] = "computing" THEN o ELSE @]
    /\ UNCHANGED <<pc, data, resp, elapsed, sem, registryVars, taskVars>>
    /\ UNCHANGED <<record, producerVars>>
    /\ UNCHANGED frontendVars

\* The handler awaiting the broadcast itself instead of spawning a task: the
\* response is held back until the fan-out is over.
CompleteAwaitingBroadcast(r) ==
    /\ pc[r] = "computing"
    /\ thr[r] = "exited"
    /\ sem' = sem + 1
    /\ pc' = [pc EXCEPT ![r] = "broadcasting"]
    /\ bcState' = [bcState EXCEPT ![r] = "spawned"]
    /\ UNCHANGED <<data, resp, elapsed, thr, outcome, registryVars, bcIdx, bcCur,
                   sent, bcLive>>
    /\ UNCHANGED <<record, producerVars>>
    /\ UNCHANGED frontendVars

\* The call resumes with the thread's result: the semaphore is released, the
\* broadcast is spawned with asyncio.create_task, and the response returned.
Complete(r) ==
    /\ pc[r] = "computing"
    /\ thr[r] = "exited"
    /\ sem' = sem + 1
    /\ resp' = [resp EXCEPT ![r] = ComputedResponse(outcome[r])]
    /\ pc' = [pc EXCEPT ![r] = "done"]
    /\ bcState' = [bcState EXCEPT ![r] = "spawned"]
    /\ UNCHANGED <<data, elapsed, thr, outcome, registryVars, bcIdx, bcCur, sent,
                   bcLive>>
    /\ UNCHANGED <<record, producerVars>>
    /\ UNCHANGED frontendVars

\* A timeout that leaves the slot of a computing call taken.
TimeoutKeepsSlot(r) ==
    /\ TimerArmed(r)
    /\ elapsed[r] >= Deadline
    /\ thr' = [thr EXCEPT ![r] = IF @ = "queued" THEN "none" ELSE @]
    /\ resp' = [resp EXCEPT ![r] = TimeoutResponse]
    /\ pc' = [pc EXCEPT ![r] = "done"]
    /\ UNCHANGED <<sem, data, elapsed, outcome, registryVars, taskVars>>
    /\ UNCHANGED <<record, producerVars>>
    /\ UNCHANGED frontendVars

\* wait_for's timer fires: the helper is cancelled, which releases a held
\* semaphore and cancels a work item still queued; a running thread cannot be
\* cancelled and goes on. The except clause returns the partial response.
Timeout(r) ==
    /\ TimerArmed(r)
    /\ elapsed[r] >= Deadline
    /\ sem' = IF pc[r] = "computing" THEN sem + 1 ELSE sem
    /\ thr' = [thr EXCEPT ![r] = IF @ = "queued" THEN "none" ELSE @]
    /\ resp' = [resp EXCEPT ![r] = TimeoutResponse]
    /\ pc' = [pc EXCEPT ![r] = "done"]
    /\ UNCHANGED <<data, elapsed, outcome, registryVars, taskVars>>
    /\ UNCHANGED <<record, producerVars>>
    /\ UNCHANGED frontendVars

\* One second passes. The event loop is never blocked (the computation runs
\* in a thread), so a due timer fires before more time passes.
Tick ==
    /\ \E r \in Req : InFlight(r)
    /\ \A r \in Req : TimerArmed(r) => elapsed[r] < Deadline
    /\ \A r \in Req : InFlight(r) => elapsed[r] <= Deadline   \* keeps the clock finite
    /\ elapsed' = [r \in Req |-> IF InFlight(r) THEN elapsed[r] + 1 ELSE elapsed[r]]
    /\ UNCHANGED <<pc, data, resp, thr, outcome, sem, registryVars, taskVars>>
    /\ UNCHANGED <<record, producerVars>>
    /\ UNCHANGED frontendVars

\* ------------------------------------------------- the connection pools
\* Pool an endpoint appends to: /ws/fleet to the fleet pool, /ws/personal and
\* the legacy /ws to the personal pool.
Endpoints == {"/ws/personal", "/ws/fleet", "/ws"}
EndpointPool(e) == IF e = "/ws/fleet" THEN "fleet" ELSE "personal"

Pool(name) == IF name = "fleet" THEN fleet_connections ELSE personal_connections

Remove(list, c) == SelectSeq(list, LAMBDA x : x # c)

\* A dashboard appended to both pools, whatever endpoint it connected to.
JoinEveryPool(c, e) ==
    /\ conn[c] = "new"
    /\ \A b \in 1..(c - 1) : conn[b] # "new"
    /\ conn' = [conn EXCEPT ![c] = "open"]
    /\ joined' = [joined EXCEPT ![c] = EndpointPool(e)]
    /\ fleet_connections' = Append(fleet_connections, c)
    /\ personal_connections' = Append(personal_connections, c)
    /\ UNCHANGED <<leaves, scorerVars, taskVars>>
    /\ UNCHANGED producerVars
    /\ UNCHANGED frontendVars

\* A dashboard connects to an endpoint: the socket is appended to its pool.
Join(c, e) ==
    /\ conn[c] = "new"
    /\ \A b \in 1..(c - 1) : conn[b] # "new"
    /\ conn' = [conn EXCEPT ![c] = "open"]
    /\ joined' = [joined EXCEPT ![c] = EndpointPool(e)]
    /\ IF EndpointPool(e) = "fleet"
       THEN /\ fleet_connections' = Append(fleet_connections, c)
            /\ UNCHANGED personal_connections
       ELSE /\ personal_connections' = Append(personal_connections, c)
            /\ UNCHANGED fleet_connections
    /\ UNCHANGED <<leaves, scorerVars, taskVars>>
    /\ UNCHANGED producerVars
    /\ UNCHANGED frontendVars

\* The peer goes away; the endpoint's handler has not yet noticed.
PeerClose(c) ==
    /\ conn[c] = "open"
    /\ conn' = [conn EXCEPT ![c] = "dead"]
    /\ bcLive' = [r \in Req |-> bcLive[r] \ {c}]
    /\ UNCHANGED <<joined, personal_connections, fleet_connections, leaves,
                   scorerVars, bcState, bcIdx, bcCur, sent>>
    /\ UNCHANGED producerVars
    /\ UNCHANGED frontendVars

\* The endpoint's handler sees the disconnect and removes the socket.
Disconnect(c) ==
    /\ conn[c] \in {"open", "dead"}
    /\ conn' = [conn EXCEPT ![c] = "closed"]
    /\ personal_connections' = Remove(personal_connections, c)
    /\ fleet_connections' = Remove(fleet_connections, c)
    /\ bcLive' = [r \in Req |-> bcLive[r] \ {c}]
    /\ UNCHANGED <<joined, leaves, scorerVars, bcState, bcIdx, bcCur, sent>>
    /\ UNCHANGED producerVars
    /\ UNCHANGED frontendVars

\* The connections a pool holds.
InPool(list) == {list[i] : i \in 1..Len(list)}

\* Whether some pool holds the connection.
Registered(c) == c \in InPool(personal_connections) \cup InPool(fleet_connections)

\* A removal that raises when the handle is in no pool (list.remove): the
\* caller's handler fails.
LeaveStrict(c) ==
    /\ leaves[c] < MaxLeaves
    /\ leaves' = [leaves EXCEPT ![c] = @ + 1]
    /\ conn' = [conn EXCEPT ![c] = IF Registered(c) THEN "closed" ELSE "failed"]
    /\ personal_connections' = Remove(personal_connections, c)
    /\ fleet_connections' = Remove(fleet_connections, c)
    /\ bcLive' = [r \in Req |-> bcLive[r] \ {c}]
    /\ UNCHANGED <<joined, scorerVars, bcState, bcIdx, bcCur, sent>>
    /\ UNCHANGED producerVars
    /\ UNCHANGED frontendVars

\* leave(handle), for any handle at any time: the connection is taken out
\* of the pool that holds it; a handle no pool holds is left alone.
Leave(c) ==
    /\ leaves[c] < MaxLeaves
    /\ leaves' = [leaves EXCEPT ![c] = @ + 1]
    /\ conn' = [conn EXCEPT ![c] = IF Registered(c) THEN "closed" ELSE @]
    /\ personal_connections' = Remove(personal_connections, c)
    /\ fleet_connections' = Remove(fleet_connections, c)
    /\ bcLive' = [r \in Req |-> bcLive[r] \ {c}]
    /\ UNCHANGED <<joined, scorerVars, bcState, bcIdx, bcCur, sent>>
    /\ UNCHANGED producerVars
    /\ UNCHANGED frontendVars

\* ---------------------------------------------------------- the broadcast
\* The single pool of the old /ws endpoint: every message to every dashboard.
PoolOfSinglePool(mode) == "personal"

\* mode = message.get('mode', 'personal'); 'fleet' selects the fleet pool and
\* anything else the personal pool.
PoolOf(mode) == IF mode = "fleet" THEN "fleet" ELSE "personal"

Connections(r) == Pool(PoolOf(data[r].simulation_mode))

\* The sockets of a list that are open.
Members(list) == {list[i] : i \in {j \in 1..Len(list) : conn[list[j]] = "open"}}

\* next() of the list iterator of "for connection in connections": the element
\* at the iterator's index of the list as it is now, or the end of the loop.
Advance(r) ==
    IF bcIdx[r] < Len(Connections(r))
    THEN /\ bcIdx' = [bcIdx EXCEPT ![r] = @ + 1]
         /\ bcCur' = [bcCur EXCEPT ![r] = Connections(r)[bcIdx[r] + 1]]
         /\ bcState' = [bcState EXCEPT ![r] = "sending"]
    ELSE /\ bcIdx' = [bcIdx EXCEPT ![r] = 0]
         /\ bcCur' = [bcCur EXCEPT ![r] = 0]
         /\ bcState' = [bcState EXCEPT ![r] = "done"]

\* The spawned task gets its first turn: it selects the pool and starts the loop.
BroadcastStart(r) ==
    /\ bcState[r] = "spawned"
    /\ Advance(r)
    /\ bcLive' = [bcLive EXCEPT ![r] = Members(Connections(r))]
    /\ UNCHANGED <<sent, scorerVars, registryVars>>
    /\ UNCHANGED producerVars
    /\ UNCHANGED frontendVars

\* The send that connection.send_text(...) awaits is done: the message is
\* out and the task is ready to run again.
SendText(r) ==
    /\ bcState[r] = "sending"
    /\ conn[bcCur[r]] = "open"
    /\ sent' = [sent EXCEPT ![bcCur[r]][r] = @ + 1]
    /\ bcState' = [bcState EXCEPT ![r] = "resuming"]
    /\ UNCHANGED <<bcIdx, bcCur, bcLive, scorerVars, registryVars>>
    /\ UNCHANGED producerVars
    /\ UNCHANGED frontendVars

\* The event loop runs the task again, after whatever else was ready: the
\* await returns and the loop goes to the next socket.
Resume(r) ==
    /\ bcState[r] = "resuming"
    /\ Advance(r)
    /\ UNCHANGED <<sent, bcLive, scorerVars, registryVars>>
    /\ UNCHANGED producerVars
    /\ UNCHANGED frontendVars

\* send_text raises on a socket that is gone: nothing catches it inside the
\* loop, so the exception ends the task.
SendFail(r) ==
    /\ bcState[r] = "sending"
    /\ conn[bcCur[r]] # "open"
    /\ bcState' = [bcState EXCEPT ![r] = "failed"]
    /\ bcIdx' = [bcIdx EXCEPT ![r] = 0]
    /\ UNCHANGED <<bcCur, sent, bcLive, scorerVars, registryVars>>
    /\ UNCHANGED producerVars
    /\ UNCHANGED frontendVars

\* ------------------------------------------------------------ the simulator
\* A fixed one-second pause between attempts, without backoff.
FixedDelays == <<10, 10, 10>>

\* retry_delays = [0.5, 1.0, 2.0], in tenths of a second.
retry_delays == <<5, 10, 20>>

\* What one requests.post may end in: a 200 with a score, a 503, another
\* status, or requests.exceptions.Timeout.
Ok(s) == [kind |-> "200", score |-> s]
Busy == [kind |-> "503", score |-> 0]
OtherStatus == [kind |-> "500", score |-> 0]
TimedOut == [kind |-> "Timeout", score |-> 0]
PostOutcomes == {Ok(s) : s \in ScoreValues} \cup {Busy, OtherStatus, TimedOut}

\* The --duration values of the runs with failing requests.
Durations == {10 * MaxSeconds}

\* t + d on the simulator's clock. The clock is only compared with duration,
\* so it is kept at duration once it has passed it.
Later(t, d) == IF t + d >= duration THEN duration ELSE t + d

\* Time one attempt takes before the loop goes on: a Timeout is raised after
\* the request's timeout, then a 503 or a Timeout sleeps retry_delays[attempt];
\* any other status falls through the if/elif with no sleep.
AttemptTime(o, a) ==
    CASE o.kind = "Timeout" -> RequestTimeout + retry_delays[a + 1]
      [] o.kind = "503" -> retry_delays[a + 1]
      [] OTHER -> 0

\* The delay slept after an attempt, if any.
AttemptSleep(o, a) ==
    IF o.kind \in {"503", "Timeout"} THEN <<retry_delays[a + 1]>> ELSE <<>>

\* run_simulation is entered: a new session with an empty score list.
StartRun(p) ==
    /\ ppc[p] = "idle"
    /\ ppc' = [ppc EXCEPT ![p] = "loop"]
    /\ session_scores' = [session_scores EXCEPT ![p] = <<>>]
    /\ clock' = [clock EXCEPT ![p] = 0]
    /\ UNCHANGED <<duration, attempt, result, summary, tried, slept, received,
                   issued, scorerVars, registryVars, taskVars>>
    /\ UNCHANGED frontendVars

\* A cadence tick inside the session's duration: send_telemetry is called
\* with the next telemetry record.
Submit(p) ==
    /\ ppc[p] = "loop"
    /\ clock[p] < duration
    /\ ppc' = [ppc EXCEPT ![p] = "sent"]
    /\ attempt' = [attempt EXCEPT ![p] = 0]
    /\ tried' = [tried EXCEPT ![p] = <<>>]
    /\ slept' = [slept EXCEPT ![p] = <<>>]
    /\ issued' = [issued EXCEPT ![p] = @ + 1]
    /\ UNCHANGED <<duration, clock, result, session_scores, summary, received,
                   scorerVars, registryVars, taskVars>>
    /\ UNCHANGED frontendVars

\* send_telemetry raising once the attempts are used up, which would end the
\* run.
RetriesExhaustedRaise == "crashed"

\* Where the simulator is after the last failed attempt: the for loop is over
\* and send_telemetry returns (None) to the session loop.
RetriesExhausted == "returned"

\* One iteration of "for attempt in range(max_retries)": the post ends in o.
\* A 200 returns response.json(); otherwise the loop goes on after the sleep,
\* and falls off its end, returning None, after the last iteration.
Respond(p, o) ==
    /\ ppc[p] = "sent"
    /\ tried' = [tried EXCEPT ![p] = Append(@, o.kind)]
    /\ slept' = [slept EXCEPT ![p] =
                    IF o.kind = "200" THEN @ ELSE @ \o AttemptSleep(o, attempt[p])]
    /\ clock' = [clock EXCEPT ![p] =
                    IF o.kind = "200" THEN @ ELSE Later(@, AttemptTime(o, attempt[p]))]
    /\ received' = [received EXCEPT ![p] =
                       IF o.kind = "200" THEN Append(@, o.score) ELSE @]
    /\ IF o.kind = "200"
       THEN /\ result' = [result EXCEPT ![p] = o.score]
            /\ ppc' = [ppc EXCEPT ![p] = "returned"]
            /\ UNCHANGED attempt
       ELSE /\ attempt' = [attempt EXCEPT ![p] = @ + 1]
            /\ result' = [result EXCEPT ![p] = NoResult]
            /\ ppc' = [ppc EXCEPT ![p] =
                          IF attempt[p] + 1 = max_retries THEN RetriesExhausted ELSE "sent"]
    /\ UNCHANGED <<duration, session_scores, summary, issued, scorerVars,
                   registryVars, taskVars>>
    /\ UNCHANGED frontendVars

\* A neutral 5.0 recorded for a submission that got no score.
RecordedNeutral(scores, v) == Append(scores, IF v = NoResult THEN 50 ELSE v)

\* The scores kept for the session after send_telemetry returned v: a score
\* is appended, None is skipped.
Recorded(scores, v) == IF v = NoResult THEN scores ELSE Append(scores, v)

\* One score list shared by the simulators (a module-level list instead of
\* the instance attribute).
RecordShared(p) ==
    /\ ppc[p] = "returned"
    /\ session_scores' = [q \in Producers |-> Recorded(session_scores[q], result[p])]
    /\ clock' = [clock EXCEPT ![p] = Later(@, update_interval)]
    /\ ppc' = [ppc EXCEPT ![p] = "loop"]
    /\ UNCHANGED <<duration, attempt, result, summary, tried, slept, received,
                   issued, scorerVars, registryVars, taskVars>>
    /\ UNCHANGED frontendVars

\* Back in the session loop: the result is recorded, then the loop sleeps
\* update_interval until the next tick.
Record(p) ==
    /\ ppc[p] = "returned"
    /\ session_scores' = [session_scores EXCEPT ![p] = Recorded(@, result[p])]
    /\ clock' = [clock EXCEPT ![p] = Later(@, update_interval)]
    /\ ppc' = [ppc EXCEPT ![p] = "loop"]
    /\ UNCHANGED <<duration, attempt, result, summary, tried, slept, received,
                   issued, scorerVars, registryVars, taskVars>>
    /\ UNCHANGED frontendVars

RECURSIVE Sum(_)
Sum(q) == IF q = <<>> THEN 0 ELSE Head(q) + Sum(Tail(q))

Max(q) == CHOOSE x \in {q[i] : i \in 1..Len(q)} : \A j \in 1..Len(q) : q[j] <= x
Min(q) == CHOOSE x \in {q[i] : i \in 1..Len(q)} : \A j \in 1..Len(q) : x <= q[j]

\* sum(q) / len(q) printed with two decimals: hundredths of a point, rounded.
Average(q) == (20 * Sum(q) + Len(q)) \div (2 * Len(q))

\* The statistics printed at completion.
Statistics(q) ==
    [count |-> Len(q), average |-> Average(q), best |-> Max(q), worst |-> Min(q)]

\* The duration has elapsed: the loop ends and the statistics are printed.
\* With an empty score list sum(...) / len(...) raises ZeroDivisionError.
Finish(p) ==
    /\ ppc[p] = "loop"
    /\ clock[p] >= duration
    /\ IF session_scores[p] = <<>>
       THEN /\ ppc' = [ppc EXCEPT ![p] = "crashed"]
            /\ UNCHANGED summary
       ELSE /\ ppc' = [ppc EXCEPT ![p] = "done"]
            /\ summary' = [summary EXCEPT ![p] = Statistics(session_scores[p])]
    /\ UNCHANGED <<duration, clock, attempt, result, session_scores, tried,
                   slept, received, issued, scorerVars, registryVars, taskVars>>
    /\ UNCHANGED frontendVars

Next ==
    \/ \E r \in Req, d \in ValidRecords : Ingest(r, d)
    \/ \E r \in Req : Acquire(r)
    \/ \E r \in Req : ThreadStart(r)
    \/ \E r \in Req, o \in ComputerOutcomes : ThreadExit(r, o)
    \/ \E r \in Req : Complete(r)
    \/ \E r \in Req : Timeout(r)
    \/ Tick
    \/ \E c \in Conn, e \in Endpoints : Join(c, e)
    \/ \E c \in Conn : PeerClose(c)
    \/ \E c \in Conn : Disconnect(c)
    \/ \E r \in Req : BroadcastStart(r)
    \/ \E r \in Req : SendText(r)
    \/ \E r \in Req : Resume(r)
    \/ \E r \in Req : SendFail(r)

Spec == Init /\ [][Next]_vars

\* The scorer on its own: requests against a backend no dashboard is
\* connected to (both pools stay empty, every broadcast finds nothing to send).
NextScorer ==
    \/ \E r \in Req, d \in ValidRecords : Ingest(r, d)
    \/ \E r \in Req : Acquire(r)
    \/ \E r \in Req : ThreadStart(r)
    \/ \E r \in Req, o \in ComputerOutcomes : ThreadExit(r, o)
    \/ \E r \in Req : Complete(r)
    \/ \E r \in Req : Timeout(r)
    \/ Tick
    \/ \E r \in Req : BroadcastStart(r)

SpecScorer == Init /\ [][NextScorer]_vars

\* The scorer fed by a producer that may also leave the channel or the
\* session of a record empty or missing.
NextMalformed ==
    \/ \E r \in Req, d \in Submitted : Ingest(r, d)
    \/ \E r \in Req : Acquire(r)
    \/ \E r \in Req : ThreadStart(r)
    \/ \E r \in Req, o \in ComputerOutcomes : ThreadExit(r, o)
    \/ \E r \in Req : Complete(r)
    \/ \E r \in Req : Timeout(r)
    \/ Tick
    \/ \E r \in Req : BroadcastStart(r)

SpecMalformed == Init /\ [][NextMalformed]_vars

\* The scorer fed by a simulator whose posts may time out on its side after
\* the backend received them, and are then retried.
NextRetry ==
    \/ \E r \in Req, d \in ValidRecords : Ingest(r, d)
    \/ \E r, q \in Req : Retry(r, q)
    \/ \E r \in Req : Acquire(r)
    \/ \E r \in Req : ThreadStart(r)
    \/ \E r \in Req, o \in ComputerOutcomes : ThreadExit(r, o)
    \/ \E r \in Req : Complete(r)
    \/ \E r \in Req : Timeout(r)
    \/ Tick
    \/ \E r \in Req : BroadcastStart(r)

SpecRetry == Init /\ [][NextRetry]_vars

\* The connection registry on its own: dashboards join, go away and are
\* removed, by their endpoint's handler or by a leave call.
NextRegistry ==
    \/ \E c \in Conn, e \in Endpoints : Join(c, e)
    \/ \E c \in Conn : PeerClose(c)
    \/ \E c \in Conn : Disconnect(c)
    \/ \E c \in Conn : Leave(c)

SpecRegistry == Init /\ [][NextRegistry]_vars

\* One simulator, of either mode, run against an endpoint that may fail each
\* post.
NextProducer ==
    \/ \E p \in Producers :
          /\ \A q \in Producers : ppc[q] = "idle"
          /\ StartRun(p)
    \/ \E p \in Producers : Submit(p)
    \/ \E p \in Producers, o \in PostOutcomes : Respond(p, o)
    \/ \E p \in Producers : Record(p)
    \/ \E p \in Producers : Finish(p)

InitProducer == BackendInit /\ ProducerInit(Durations)
                /\ FrontendInit({"personal"})

SpecProducer == InitProducer /\ [][NextProducer]_vars

\* Scores the backend returns in the parallel run: 10.0 throughout for the
\* personal simulator, between 8 and 9 for the fleet simulator.
ParallelScores(p) == IF p = "personal" THEN {100} ELSE {80, 90}

\* The personal and the fleet simulator started together for the same
\* duration against a backend that answers every post with a 200.
NextParallel ==
    \/ \E p \in Producers : StartRun(p)
    \/ \E p \in Producers : Submit(p)
    \/ \E p \in Producers : \E s \in ParallelScores(p) : Respond(p, Ok(s))
    \/ \E p \in Producers : Record(p)
    \/ \E p \in Producers : Finish(p)

SpecParallel == Init /\ [][NextParallel]_vars

\* Both simulators are running processes: each goes on taking steps.
FairParallel == SpecParallel /\ WF_vars(NextParallel)

\* ------------------------------------------------- the dashboard's charts
MaxPoints == 34
maxDataPoints == 30

\* The updater of setChartData that keeps every point.
Unbounded(prev, point) == Append(prev, point)

\* The updater passed to setChartData: append the point, keep the last
\* maxDataPoints.
Updated(prev, point) ==
    LET newData == Append(prev, point)
    IN  IF Len(newData) > maxDataPoints
        THEN SubSeq(newData, Len(newData) - maxDataPoints + 1, Len(newData))
        ELSE newData

\* A driving_data message reaches the dashboard: setDrivingData(payload),
\* and the effect on [drivingData] of TelemetryCharts runs. A message with
\* no payload (null is true) sets drivingData to null and adds no point.
SetDrivingData(null) ==
    /\ stamp < MaxPoints
    /\ IF null
       THEN /\ drivingData' = 0
            /\ UNCHANGED <<chartData, stamp>>
       ELSE /\ stamp' = stamp + 1
            /\ drivingData' = stamp + 1
            /\ chartData' = Updated(chartData, stamp + 1)
    /\ UNCHANGED <<mountStamp, hookVars, serverVars>>

\* The dashboard page is left and entered again: its state starts afresh.
Remount ==
    /\ chartData' = <<>>
    /\ drivingData' = 0
    /\ mountStamp' = stamp
    /\ UNCHANGED <<stamp, hookVars, serverVars>>

NextChart ==
    \/ \E null \in BOOLEAN : SetDrivingData(null)
    \/ Remount

SpecChart == Init /\ [][NextChart]_vars

\* ------------------------------------------------ the useWebSocket hook
\* Times are in milliseconds; the clock advances by TickMs.
MaxSockets == 7
MaxUrlChanges == 1
TickMs == 1000
maxReconnectAttempts == 5
reconnectDelay == 3000

\* The urls a caller may pass to the hook: the endpoints of one channel.
Urls == {"/ws", "/ws/personal"}

\* setConnectionStatus: a state update of a component that is no longer
\* mounted is dropped by React.
SetConnectionStatus(v) ==
    connectionStatus' = IF hookState = "mounted" THEN v ELSE connectionStatus

\* connect's new WebSocket(u) and wsRef.current = ws, on the list ss; w is the
\* time the timer that called connect has waited (0 for the effect's call).
Connect(ss, u, w) ==
    /\ sockets' = Append(ss, [url |-> u, readyState |-> "CONNECTING", waited |-> w])
    /\ wsRef' = Len(ss) + 1

\* The effect's cleanup on the sockets: wsRef.current.close().
Closing ==
    IF wsRef # 0 /\ sockets[wsRef].readyState \in {"CONNECTING", "OPEN"}
    THEN [sockets EXCEPT ![wsRef].readyState = "CLOSING"]
    ELSE sockets

\* The effect's cleanup on the timers: clearTimeout(reconnectTimeoutRef.current).
Cleared == {t \in timers : t.id # reconnectTimeoutRef}

\* The page is rendered for the first time; the effect calls connect().
Mount ==
    /\ hookState = "unmounted"
    /\ hookState' = "mounted"
    /\ IF url = None
       THEN UNCHANGED <<sockets, wsRef>>
       ELSE Connect(sockets, url, 0)
    /\ UNCHANGED <<page, url, timers, reconnectTimeoutRef, reconnectAttemptsRef,
                   connectionStatus, streak, urlChanges, chartVars, serverVars>>

\* ws.onopen.
Open(s) ==
    /\ sockets[s].readyState = "CONNECTING"
    /\ sockets' = [sockets EXCEPT ![s].readyState = "OPEN"]
    /\ SetConnectionStatus("connected")
    /\ reconnectAttemptsRef' = 0
    /\ streak' = 0
    /\ UNCHANGED <<page, hookState, url, wsRef, timers, reconnectTimeoutRef,
                   urlChanges, chartVars, serverVars>>

\* An onclose that schedules a reconnect whatever the counter says.
CloseUnlimited(s) ==
    /\ sockets[s].readyState \in {"CONNECTING", "OPEN", "CLOSING"}
    /\ streak < maxReconnectAttempts + 1
    /\ sockets' = [sockets EXCEPT ![s].readyState = "CLOSED"]
    /\ SetConnectionStatus("disconnected")
    /\ streak' = streak + 1
    /\ timers' = timers \cup {[id |-> s, url |-> sockets[s].url, elapsed |-> 0]}
    /\ reconnectTimeoutRef' = s
    /\ UNCHANGED <<page, hookState, url, wsRef, reconnectAttemptsRef, urlChanges,
                   chartVars, serverVars>>

\* The connection of socket s ends (refused, dropped by the peer, or closed
\* by close()): ws.onerror, if it failed, and ws.onclose run in one task, so
\* the status after it is 'disconnected'. The timer's callback is the
\* connect that created s, so it connects to the url of s.
Close(s) ==
    /\ sockets[s].readyState \in {"CONNECTING", "OPEN", "CLOSING"}
    /\ sockets' = [sockets EXCEPT ![s].readyState = "CLOSED"]
    /\ SetConnectionStatus("disconnected")
    /\ IF reconnectAttemptsRef < maxReconnectAttempts
       THEN /\ reconnectAttemptsRef' = reconnectAttemptsRef + 1
            /\ streak' = streak + 1
            /\ timers' = timers \cup {[id |-> s, url |-> sockets[s].url, elapsed |-> 0]}
            /\ reconnectTimeoutRef' = s
       ELSE UNCHANGED <<reconnectAttemptsRef, streak, timers, reconnectTimeoutRef>>
    /\ UNCHANGED <<page, hookState, url, wsRef, urlChanges, chartVars, serverVars>>

\* Time passes while no timer is due.
Wait ==
    /\ timers # {}
    /\ \A t \in timers : t.elapsed < reconnectDelay
    /\ timers' = {[t EXCEPT !.elapsed = @ + TickMs] : t \in timers}
    /\ UNCHANGED <<page, hookState, url, sockets, wsRef, reconnectTimeoutRef,
                   reconnectAttemptsRef, connectionStatus, streak, urlChanges,
                   chartVars, serverVars>>

\* A timer set by onclose is due: its callback calls connect().
TimerFire(t) ==
    /\ t \in timers
    /\ t.elapsed >= reconnectDelay
    /\ Len(sockets) < MaxSockets
    /\ timers' = timers \ {t}
    /\ Connect(sockets, t.url, t.elapsed)
    /\ UNCHANGED <<page, hookState, url, reconnectTimeoutRef, reconnectAttemptsRef,
                   connectionStatus, streak, urlChanges, chartVars, serverVars>>

\* The component is unmounted: the effect's cleanup runs.
Unmount ==
    /\ hookState = "mounted"
    /\ hookState' = "removed"
    /\ timers' = Cleared
    /\ sockets' = Closing
    /\ UNCHANGED <<page, url, wsRef, reconnectTimeoutRef, reconnectAttemptsRef,
                   connectionStatus, streak, urlChanges, chartVars, serverVars>>

\* The component is rendered with another url: connect is a new callback, so
\* the effect's cleanup runs and then the effect calls the new connect().
ChangeUrl(u) ==
    /\ hookState = "mounted"
    /\ url # None
    /\ u # url
    /\ urlChanges < MaxUrlChanges
    /\ Len(sockets) < MaxSockets
    /\ url' = u
    /\ urlChanges' = urlChanges + 1
    /\ timers' = Cleared
    /\ Connect(Closing, u, 0)
    /\ UNCHANGED <<page, hookState, reconnectTimeoutRef, reconnectAttemptsRef,
                   connectionStatus, streak, chartVars, serverVars>>

NextHook ==
    \/ Mount
    \/ \E s \in DOMAIN sockets : Open(s)
    \/ \E s \in DOMAIN sockets : Close(s)
    \/ Wait
    \/ \E t \in timers : TimerFire(t)
    \/ Unmount
    \/ \E u \in Urls : ChangeUrl(u)

InitHook == BackendInit /\ ProducerInit({ParallelDuration}) /\ FrontendInit(Pages)

SpecHook == InitHook /\ [][NextHook]_vars

\* ------------------------------------------------------------ the claims
Mode(r) == data[r].simulation_mode
Fallback == [status |-> 200, score |-> 50, confidence |-> 50]

\* C1: with a limiter of size N, the number of Score Computer computations
\* entered and not yet exited never exceeds N, also after a call hit its
\* deadline and returned the fallback.
C1_AdmissionBound == Cardinality(Running) <= MAX_CONCURRENT_REQUESTS

\* C3: every request with a non-empty channel and sessionId that has returned
\* carries a ScoreResult with score in [0,10] and confidence in [0,1], on the
\* computed path, both timeout paths and the failure path.
C3_ResultInRange ==
    \A r \in Req :
        (pc[r] = "done" /\ WellFormed(data[r])) =>
            /\ resp[r].status = 200
            /\ resp[r].score \in 0..100
            /\ resp[r].confidence \in 0..100

\* A call that returned the fallback while its computation hangs on, next to a
\* call that returned after the Score Computer raised.
C3_Witness ==
    \E r, q \in Req :
        /\ pc[r] = "done" /\ thr[r] = "running" /\ resp[r].confidence = 50
        /\ pc[q] = "done" /\ outcome[q].raised /\ resp[q].confidence = 95
        /\ WellFormed(data[r]) /\ WellFormed(data[q])

\* C4: a call whose deadline has expired before it acquired a slot and
\* finished the computation returns score 5.0 with confidence 0.5, not an error.
C4_DeadlineFallback ==
    [][\A r \in Req :
          (/\ InFlight(r)
           /\ elapsed[r] >= Deadline
           /\ thr[r] # "exited"
           /\ pc'[r] = "done") => resp'[r] = Fallback]_vars

\* One call timed out waiting for a slot and another while computing.
C4_Witness ==
    \E r, q \in Req :
        /\ pc[r] = "done" /\ thr[r] = "none" /\ resp[r] = Fallback
        /\ pc[q] = "done" /\ thr[q] = "running" /\ resp[q] = Fallback
        /\ elapsed[r] = Deadline /\ elapsed[q] = Deadline

\* C5: when the Score Computer throws, the caller gets the fallback
\* ScoreResult, score 5.0 with confidence 0.5.
C5_FailureFallback ==
    \A r \in Req : (pc[r] = "done" /\ outcome[r].raised) => resp[r] = Fallback

\* C6: no call is in flight, and none has returned, later than the deadline
\* after it was invoked, whether it waited for a slot or computed.
C6_BoundedResponse == \A r \in Req : elapsed[r] <= Deadline

\* A call returned at its deadline without ever getting the only slot, which
\* a computation that has not finished still holds.
C6_Witness ==
    \E r, q \in Req :
        /\ pc[r] = "done" /\ thr[r] = "none" /\ elapsed[r] = Deadline
        /\ pc[q] = "computing" /\ thr[q] = "running" /\ sem = 0

\* C2: a connection joined to "fleet" is never sent a message of a "personal"
\* record, and a connection joined to "personal" never one of a "fleet" record.
C2_ChannelIsolation ==
    \A c \in Conn, r \in Req :
        sent[c][r] > 0 =>
            /\ ~(joined[c] = "fleet" /\ Mode(r) = "personal")
            /\ ~(joined[c] = "personal" /\ Mode(r) = "fleet")

\* Both channels carried traffic: a personal dashboard got a personal result
\* and a fleet dashboard a fleet result.
C2_Witness ==
    \E c, b \in Conn, r, q \in Req :
        /\ joined[c] = "personal" /\ Mode(r) = "personal" /\ sent[c][r] > 0
        /\ joined[b] = "fleet" /\ Mode(q) = "fleet" /\ sent[b][q] > 0

\* C7: when a send of a broadcast failed and that connection was evicted, every
\* connection live in the channel for the whole broadcast was still sent the
\* message exactly once.
C7_EvictionKeepsDelivery ==
    \A r \in Req :
        (bcState[r] = "failed" /\ conn[bcCur[r]] = "closed") =>
            \A c \in bcLive[r] : sent[c][r] = 1

\* C8: a result of a record of the new channel "delivery" is sent to
\* subscribers of "delivery" and to no subscriber of another channel.
C8_NewChannelIsolated ==
    \A c \in Conn, r \in Req :
        (Mode(r) = "delivery" /\ sent[c][r] > 0) => joined[c] = "delivery"

\* C9: a record whose channel or sessionId is empty or missing is answered
\* with a client error, is not scored and is not broadcast.
C9_RejectMalformed ==
    \A r \in Req :
        (pc[r] # "new" /\ ~WellFormed(data[r])) =>
            /\ resp[r].status \in 400..499
            /\ thr[r] = "none"
            /\ bcState[r] = "none"

\* C10: once the broadcast of a record exists, whatever state it is in, the
\* producer already holds the response, and it is the computed ScoreResult.
C10_ResponseIndependentOfFanout ==
    \A r \in Req :
        bcState[r] # "none" =>
            /\ pc[r] = "done"
            /\ resp[r].status = 200
            /\ resp[r].score = calculate_score(outcome[r])
            /\ resp[r].confidence = 95

\* One request was answered although its broadcast died on a failed send,
\* another although its broadcast has not delivered anything yet.
C10_Witness ==
    \E r, q \in Req :
        /\ bcState[r] = "failed" /\ resp[r].status = 200
        /\ bcState[q] = "sending" /\ pc[q] = "done"
        /\ \A c \in Conn : sent[c][q] = 0

\* The attempt outcomes the simulator retries after a delay.
Retryable == {"503", "Timeout"}

\* Attempts of p's current submission that ended in a 200.
Successes(p) == {i \in 1..Len(tried[p]) : tried[p][i] = "200"}

\* p's current submission met two retryable failures and then a success.
TwoFailuresThenSuccess(p) ==
    /\ Len(tried[p]) >= 3
    /\ tried[p][1] \in Retryable
    /\ tried[p][2] \in Retryable
    /\ tried[p][3] = "200"

Exhausted(p) ==
    /\ Len(tried[p]) = 3
    /\ \A i \in 1..3 : tried[p][i] \in Retryable

Terminated(p) == ppc[p] = "done"

C14_LeaveIdempotent ==
    [][\A c \in Conn :
          (Leave(c) /\ ~Registered(c)) =>
              UNCHANGED <<conn, joined, personal_connections, fleet_connections>>]_vars

\* One connection joined and left twice, and a leave was made for a handle
\* that never joined.
C14_Witness ==
    \E c, b \in Conn :
        /\ conn[c] = "closed" /\ leaves[c] = 2
        /\ conn[b] = "new" /\ leaves[b] >= 1

\* C15: a connection is in at most one partition and at most once in it, and
\* a partition holds exactly the connections that joined it and have not
\* been removed since.
C15_PartitionMembership ==
    \A c \in Conn :
        /\ ~(c \in InPool(personal_connections) /\ c \in InPool(fleet_connections))
        /\ \A name \in {"personal", "fleet"} :
              /\ Cardinality(InPool(Pool(name))) = Len(Pool(name))
              /\ c \in InPool(Pool(name)) <=>
                    (joined[c] = name /\ conn[c] \in {"open", "dead"})

\* One dashboard is in the personal partition while another, which had
\* joined fleet, has been removed from it.
C15_Witness ==
    \E c, b \in Conn :
        /\ c \in InPool(personal_connections) /\ joined[c] = "personal"
        /\ joined[b] = "fleet" /\ conn[b] = "closed"
        /\ b \notin InPool(fleet_connections)

\* C16: an iteration over a partition that joins and leaves interleave with
\* visits no connection twice, and when it has ended it has visited every
\* connection that was live in the partition from its start to its end.
C16_SafeIteration ==
    \A r \in Req :
        /\ \A c \in Conn : sent[c][r] <= 1
        /\ bcState[r] = "done" => \A c \in bcLive[r] : sent[c][r] = 1

\* C17: a session whose duration has elapsed ends by reporting its summary
\* (count, average, best, worst) and never by a failure, also when it
\* recorded no success.
C17_CleanSummary ==
    \A p \in Producers :
        /\ ppc[p] # "crashed"
        /\ ppc[p] = "done" => summary[p] = Statistics(session_scores[p])

\* The scores of p's submissions that reached Success and are recorded: all
\* it received, but the one send_telemetry has just returned and the loop
\* has not yet recorded.
SuccessScores(p) ==
    IF ppc[p] = "returned" /\ result[p] # NoResult
    THEN SubSeq(received[p], 1, Len(received[p]) - 1)
    ELSE received[p]

\* C18: the session statistics are those of the submissions that reached
\* Success: the recorded scores are exactly the scores returned for them, so
\* count, sum, min and max are theirs; a dropped or fatal submission adds
\* nothing.
C18_StatsTrackSuccesses ==
    \A p \in Producers :
        /\ session_scores[p] = SuccessScores(p)
        /\ Terminated(p) =>
              /\ summary[p].count = Len(received[p])
              /\ summary[p].best = Max(received[p])
              /\ summary[p].worst = Min(received[p])
              /\ summary[p].average = Average(received[p])

\* A finished session with two different scores and at least one submission
\* that got none.
C18_Witness ==
    \E p \in Producers :
        /\ Terminated(p)
        /\ summary[p].count < issued[p]
        /\ summary[p].worst < summary[p].best

\* The requests that carried telemetry record k and were answered with a
\* ScoreResult, and those for which a broadcast was scheduled.
Results(k) == {r \in Req : record[r] = k /\ pc[r] = "done"}
Broadcasts(k) == {r \in Req : record[r] = k /\ bcState[r] # "none"}

\* C19: for one telemetry record at most one ScoreResult is created and at
\* most one broadcast scheduled, also when the simulator retries the
\* submission after a timeout of an attempt the backend had received.
C19_OneResultPerRecord ==
    \A k \in Req :
        /\ Cardinality(Results(k)) <= 1
        /\ Cardinality(Broadcasts(k)) <= 1

\* The Score Computer's computation for r's record had finished, with a
\* score, when r was answered.
CompletedInTime(r) ==
    /\ outcome[r] # NoOutcome
    /\ ~outcome[r].raised
    /\ elapsed[r] < Deadline

C21_LegacyIsPersonal ==
    /\ EndpointPool("/ws") = "personal"
    /\ \A c \in Conn, r \in Req :
          (joined[c] = EndpointPool("/ws") /\ sent[c][r] > 0) =>
              Mode(r) = "personal"

\* C24: every answered ingest of a valid record has scheduled a broadcast of
\* that record, on the deadline and failure paths as on the computed path.
C24_BroadcastOnEveryPath ==
    \A r \in Req :
        (pc[r] = "done" /\ WellFormed(data[r])) => bcState[r] # "none"

\* Calls that hold a slot of the semaphore.
Holding == {r \in Req : pc[r] = "computing"}

\* C25: the free slots are always N minus the calls that hold one: whichever
\* way a call ends (result, deadline while waiting, deadline while computing,
\* failure of the computation) it gives back the slot it took, once, and
\* nothing it did not take; with no call in flight all N slots are free.
C25_SlotsReleased ==
    /\ sem = MAX_CONCURRENT_REQUESTS - Cardinality(Holding)
    /\ (\A r \in Req : ~InFlight(r)) => sem = MAX_CONCURRENT_REQUESTS

\* All calls are over, having left by a deadline while waiting, by a deadline
\* while computing, and after a failure of the computation.
C25_Witness ==
    /\ \A r \in Req : pc[r] = "done"
    /\ \E r \in Req : resp[r] = Fallback /\ thr[r] = "none"
    /\ \E r \in Req : (resp[r] = Fallback /\ thr[r] # "none") \/ outcome[r].raised

\* C27: a connection on which a send of a broadcast failed is no longer in
\* its partition once that broadcast is over.
C27_FailedSendEvicts ==
    \A r \in Req :
        bcState[r] = "failed" => ~Registered(bcCur[r])

\* C26: within one submission only an attempt that ended in a retryable
\* failure (a timeout or the overloaded signal) is followed by another
\* attempt; any other failure response ends the submission.
C26_OnlyRetryableRetried ==
    \A p \in Producers :
        \A i \in 1..(Len(tried[p]) - 1) : tried[p][i] \in Retryable

\* The points delivered since the dashboard was mounted, oldest first.
Arrived == [i \in 1..(stamp - mountStamp) |-> mountStamp + i]

\* C28: the chart buffer never holds more than 30 points, and it is always
\* the most recent min(n, 30) of the n points delivered, in arrival order.
C28_ChartWindow ==
    LET n == Len(Arrived)
        k == IF n < maxDataPoints THEN n ELSE maxDataPoints
    IN  /\ Len(chartData) <= maxDataPoints
        /\ chartData = SubSeq(Arrived, n - k + 1, n)

\* More than 30 points were delivered and the oldest ones were discarded.
C28_Witness ==
    /\ stamp - mountStamp > maxDataPoints
    /\ Len(chartData) = maxDataPoints
    /\ chartData[1] = stamp - maxDataPoints + 1

\* Sockets of the hook that are connecting or open.
LiveSockets == {s \in DOMAIN sockets : sockets[s].readyState \in {"CONNECTING", "OPEN"}}

\* C22: a dashboard that is open holds a subscription of its own channel:
\* the personal dashboard on an endpoint of the personal partition, the
\* fleet dashboard on the endpoint of the fleet partition.
C22_OwnSubscription ==
    hookState = "mounted" =>
        /\ wsRef # 0
        /\ EndpointPool(sockets[wsRef].url) = page

\* C23: the hook makes at most 5 consecutive reconnect attempts, each 3000 ms
\* after the close that scheduled it; an open sets the counter to 0; and
\* once 5 attempts were scheduled with no open since, a close schedules no
\* further attempt.
C23_BoundedReconnect ==
    /\ [](/\ streak <= maxReconnectAttempts
          /\ reconnectAttemptsRef <= maxReconnectAttempts
          /\ \A s \in DOMAIN sockets : sockets[s].waited \in {0, reconnectDelay}
          /\ \A t \in timers : t.elapsed <= reconnectDelay)
    /\ [][/\ \A s \in DOMAIN sockets :
                (sockets[s].readyState = "CONNECTING" /\ sockets'[s].readyState = "OPEN")
                    => reconnectAttemptsRef' = 0
          /\ (streak = maxReconnectAttempts /\ streak' # 0) =>
                {t.id : t \in timers'} \subseteq {t.id : t \in timers}
          /\ \A s \in DOMAIN sockets' \ DOMAIN sockets :
                hookState # "unmounted" =>
                    \/ url' # url
                    \/ sockets'[s].waited = reconnectDelay]_vars

\* The first socket and the sockets of 5 reconnect attempts have all closed
\* without an open, and the last close has scheduled nothing.
C23_Witness ==
    /\ hookState = "mounted"
    /\ Len(sockets) = maxReconnectAttempts + 1
    /\ \A s \in DOMAIN sockets : sockets[s].readyState = "CLOSED"
    /\ \A s \in 2..Len(sockets) : sockets[s].waited = reconnectDelay
    /\ streak = maxReconnectAttempts
    /\ timers = {}

\* C29: after the cleanup of the effect (unmount, or a change of url) the
\* hook has no socket connecting or open for the old url, and it never has
\* more than one socket connecting or open.
C29_NoSocketAfterCleanup ==
    /\ Cardinality(LiveSockets) <= 1
    /\ hookState = "removed" => LiveSockets = {}
    /\ \A s \in LiveSockets : sockets[s].url = url

\* C30: while the component is mounted, connectionStatus is 'connected' only
\* if the socket in wsRef is open.
C30_ConnectedMeansOpen ==
    (hookState = "mounted" /\ connectionStatus = "connected") =>
        (wsRef # 0 /\ sockets[wsRef].readyState = "OPEN")

====
